---- MODULE Spec2Model ----
(***************************************************************************)
(* Transaction lifecycle of the payment backend (src/main.py): the Webpay  *)
(* handlers create_payment, crear_pago_reserva and confirm_payment over    *)
(* the in-memory dictionary `transactions`.                                *)
(*                                                                         *)
(* The handlers are plain `def` routes, which the framework runs in a      *)
(* thread pool: several requests are in flight at once and interleave at   *)
(* every access to `transactions`.  Each request is a call slot c with a   *)
(* program counter pc[c]; one action is one stretch of handler code that   *)
(* ends at an access to shared state or at an outbound HTTP call.          *)
(*                                                                         *)
(* Optional values (a dictionary key that may be missing, Python None)     *)
(* are sequences of length 0 or 1: <<>> is "missing", <<v>> is v.          *)
(***************************************************************************)
EXTENDS Integers, Sequences, FiniteSets, TLC

\* ------------------------------------------------------------------ bounds
\* Number of requests the model lets arrive.
MaxCalls == 3
\* Largest amount a request carries (requests carry -1 .. MaxAmount).
MaxAmount == 1
\* Number of tokens the processor can issue.
MaxTokens == 1
\* Last reading of the wall clock (time.time(), datetime.utcnow()).
MaxTime == 1

Calls == 1 .. MaxCalls
Amounts == (-1) .. MaxAmount
\* Tokens a confirmation request may name: the issued ones and one more,
\* which the processor never issues.
Tokens == 1 .. (MaxTokens + 1)
Times == 0 .. MaxTime

None == << >>
Some(v) == << v >>

\* ------------------------------------------------- the processor's answers
\* HTTP status codes of the processor's responses.
Codes == {200, 422}
\* The `status` field of a 200 response to the confirmation call.
Statuses == {"AUTHORIZED", "FAILED"}
\* response.text of a non-200 response.
ErrorBody(code) == IF code = 422 THEN "tbk-422-unprocessable" ELSE "tbk-error"
\* response.json() of a 200 response to the confirmation PUT received by
\* call c: the processor's status together with what makes this response
\* distinguishable from any other one (authorization code, dates, ...).
ConfirmJson(s, c) == [status |-> s, response_id |-> c]
\* response.json() of a 200 response to the initiation POST.
InitJson(t) == [token |-> t, url |-> << "https://webpay/", t >>]
\* The response object of requests.post / requests.put.
Response(code, text, json) == [status_code |-> code, text |-> text, json |-> json]
\* A non-200 response: its body is the processor's error text.
ErrorResponse(code) == Response(code, ErrorBody(code), [k \in {} |-> 0])

\* ReservationPaymentRequest bodies (data.dict()); phone is optional.
Reservas ==
  { [name |-> "ana", email |-> "ana@x", start_time |-> "t0", end_time |-> "t1",
     service_name |-> "corte", phone |-> None],
    [name |-> "beto", email |-> "beto@x", start_time |-> "t2", end_time |-> "t3",
     service_name |-> "color", phone |-> Some("569")] }

\* ------------------------------------------------------------------- state
VARIABLES
  transactions,  \* the dictionary: token -> record, a function on the stored tokens
  now,           \* the wall clock
  issued,        \* number of tokens the processor has issued
  pc,            \* pc[c]: where request c stands in its handler
  req,           \* req[c]: the request body and the handler's buy_order
  resp,          \* resp[c]: the processor's response the handler holds, if any
  out,           \* out[c]: what the handler answered, once it has
  seen,          \* seen[c]: what line 271 found for the token of c
  puts,          \* puts[c]: number of requests c sent to the processor
  wrote,         \* wrote[c]: what c assigned in the dictionary
  ret,           \* ret[c]: the dictionary line 272 is building
  notifs,        \* notifs[c]: bodies c posted to the webhook, in order
  quiet          \* quiet[c]: no request was in flight when c arrived

vars == << transactions, now, issued, pc, req, resp, out, seen, puts, wrote, ret, notifs, quiet >>

NoReq == [kind |-> "none", amount |-> 0, data |-> None, token |-> 0, buy_order |-> None]

\* {} 
EmptyDict == [k \in {} |-> 0]
NoRet == [success |-> FALSE, status |-> "", details |-> EmptyDict]

\* HTTPException(status_code, detail) as the client sees it.
HTTPException(code, detail) == [http |-> code, body |-> [detail |-> detail]]
\* A returned dictionary.
Ok(body) == [http |-> 200, body |-> body]

Init ==
  /\ transactions = [t \in {} |-> 0]
  /\ now = 0
  /\ issued = 0
  /\ pc = [c \in Calls |-> "idle"]
  /\ req = [c \in Calls |-> NoReq]
  /\ resp = [c \in Calls |-> None]
  /\ out = [c \in Calls |-> None]
  /\ seen = [c \in Calls |-> "none"]
  /\ puts = [c \in Calls |-> 0]
  /\ wrote = [c \in Calls |-> {}]
  /\ ret = [c \in Calls |-> NoRet]
  /\ notifs = [c \in Calls |-> << >>]
  /\ quiet = [c \in Calls |-> FALSE]

\* Requests are numbered in their order of arrival.
Arrives(c) ==
  /\ pc[c] = "idle"
  /\ \A d \in Calls : d < c => pc[d] # "idle"

\* No request is in flight.
Quiet == \A d \in Calls : pc[d] \in {"idle", "done"}

\* The clock advances between any two steps.
Tick ==
  /\ now < MaxTime
  /\ now' = now + 1
  /\ UNCHANGED << transactions, issued, pc, req, resp, out, seen, puts, wrote, ret, notifs, quiet >>

\* ------------------------------------------------------- create_payment
\* Variant of line 110 that lets a zero amount through.
InvalidAmount_negative_only(amount) == amount < 0

\* line 110
InvalidAmount(amount) == amount <= 0

\* lines 109-133: validation, buy_order, and the initiation POST is sent.
CreatePayment(c, amount) ==
  /\ Arrives(c)
  /\ quiet' = [quiet EXCEPT ![c] = Quiet]
  /\ IF InvalidAmount(amount)
       THEN /\ req' = [req EXCEPT ![c] = [NoReq EXCEPT !.kind = "create_payment", !.amount = amount]]
            /\ out' = [out EXCEPT ![c] = Some(HTTPException(400, << "Monto invalido" >>))]
            /\ pc' = [pc EXCEPT ![c] = "done"]
            /\ UNCHANGED puts
       ELSE /\ req' = [req EXCEPT ![c] = [NoReq EXCEPT !.kind = "create_payment", !.amount = amount,
                                                        !.buy_order = Some(<< "ORDER", now >>)]]
            /\ puts' = [puts EXCEPT ![c] = @ + 1]
            /\ pc' = [pc EXCEPT ![c] = "p_resp"]
            /\ UNCHANGED out
  /\ UNCHANGED << transactions, now, issued, resp, seen, wrote, ret, notifs >>

\* Variant of lines 135-136 that answers instead of raising.
CreatePaymentError_answers(response) == Ok([success |-> FALSE, detail |-> << response.text >>])

\* lines 135-136: what create_payment raises on a non-200 response.
CreatePaymentError(response) == HTTPException(500, << response.text >>)

\* lines 133-138: the processor answers the initiation POST.
CreatePaymentResp(c) ==
  /\ pc[c] = "p_resp"
  /\ \E code \in Codes :
       IF code # 200
         THEN /\ resp' = [resp EXCEPT ![c] = Some(ErrorResponse(code))]
              /\ out' = [out EXCEPT ![c] = Some(CreatePaymentError(ErrorResponse(code)))]
              /\ pc' = [pc EXCEPT ![c] = "done"]
              /\ UNCHANGED issued
         ELSE /\ issued < MaxTokens
              /\ issued' = issued + 1
              /\ resp' = [resp EXCEPT ![c] = Some(Response(200, "", InitJson(issued + 1)))]
              /\ pc' = [pc EXCEPT ![c] = "p_store"]
              /\ UNCHANGED out
  /\ UNCHANGED << transactions, now, req, seen, puts, wrote, ret, notifs, quiet >>

\* dict[key] = value
Put(tx, t, rec) == [k \in DOMAIN tx \cup {t} |-> IF k = t THEN rec ELSE tx[k]]

\* lines 140-145: the record create_payment stores.
PaymentRecord(amount, buy_order, t) ==
  [status |-> "pending", amount |-> amount, buy_order |-> buy_order,
   reserva_data |-> None, created_at |-> t, updated_at |-> None, details |-> None]

\* lines 140-151
CreatePaymentStore(c) ==
  /\ pc[c] = "p_store"
  /\ LET r == resp[c][1].json IN
       /\ transactions' = Put(transactions, r.token,
                              PaymentRecord(req[c].amount, req[c].buy_order[1], now))
       /\ out' = [out EXCEPT ![c] = Some(Ok([success |-> TRUE, payment_url |-> r.url,
                                             token |-> r.token]))]
  /\ wrote' = [wrote EXCEPT ![c] = {"record"}]
  /\ pc' = [pc EXCEPT ![c] = "done"]
  /\ UNCHANGED << now, issued, req, resp, seen, puts, ret, notifs, quiet >>

\* --------------------------------------------------- crear_pago_reserva
\* lines 209-234: buy_order, and the initiation POST is sent; the amount
\* goes to the processor as it came.
CrearPagoReserva(c, data, amount) ==
  /\ Arrives(c)
  /\ quiet' = [quiet EXCEPT ![c] = Quiet]
  /\ req' = [req EXCEPT ![c] = [NoReq EXCEPT !.kind = "crear_pago_reserva", !.amount = amount,
                                              !.data = Some(data),
                                              !.buy_order = Some(<< "RES", now >>)]]
  /\ puts' = [puts EXCEPT ![c] = @ + 1]
  /\ pc' = [pc EXCEPT ![c] = "r_resp"]
  /\ UNCHANGED << transactions, now, issued, resp, out, seen, wrote, ret, notifs >>


\* lines 236-238: what crear_pago_reserva raises on a non-200 response.
CrearPagoReservaError(response) ==
  HTTPException(response.status_code, << "Error con Transbank: ", response.text >>)

\* lines 234-240: the processor answers the initiation POST.
CrearPagoReservaResp(c) ==
  /\ pc[c] = "r_resp"
  /\ \E code \in Codes :
       IF code # 200
         THEN /\ resp' = [resp EXCEPT ![c] = Some(ErrorResponse(code))]
              /\ out' = [out EXCEPT ![c] = Some(CrearPagoReservaError(ErrorResponse(code)))]
              /\ pc' = [pc EXCEPT ![c] = "done"]
              /\ UNCHANGED issued
         ELSE /\ issued < MaxTokens
              /\ issued' = issued + 1
              /\ resp' = [resp EXCEPT ![c] = Some(Response(200, "", InitJson(issued + 1)))]
              /\ pc' = [pc EXCEPT ![c] = "r_store"]
              /\ UNCHANGED out
  /\ UNCHANGED << transactions, now, req, seen, puts, wrote, ret, notifs, quiet >>

\* Variant of lines 243-249 that leaves the amount out of the record.
ReservaRecord_forgets_amount(data, amount, buy_order, t) ==
  [status |-> "pending", amount |-> 0, buy_order |-> buy_order,
   reserva_data |-> Some(data), created_at |-> t, updated_at |-> None, details |-> None]

\* lines 243-249: the record crear_pago_reserva stores.
ReservaRecord(data, amount, buy_order, t) ==
  [status |-> "pending", amount |-> amount, buy_order |-> buy_order,
   reserva_data |-> Some(data), created_at |-> t, updated_at |-> None, details |-> None]

\* lines 243-260
CrearPagoReservaStore(c) ==
  /\ pc[c] = "r_store"
  /\ LET r == resp[c][1].json IN
       /\ transactions' = Put(transactions, r.token,
                              ReservaRecord(req[c].data[1], req[c].amount, req[c].buy_order[1], now))
       /\ out' = [out EXCEPT ![c] = Some(Ok([success |-> TRUE,
                                             payment_url |-> r.url \o << "?token_ws=", r.token >>,
                                             token |-> r.token]))]
  /\ wrote' = [wrote EXCEPT ![c] = {"record"}]
  /\ pc' = [pc EXCEPT ![c] = "done"]
  /\ UNCHANGED << now, issued, req, resp, seen, puts, ret, notifs, quiet >>

\* ------------------------------------------------------ confirm_payment
\* Variant of line 271 without the guard.
AlreadyProcessed_never(tx, token) == FALSE

\* line 271: the token has a record and its status is not "pending".
AlreadyProcessed(tx, token) ==
  token \in DOMAIN tx /\ tx[token].status # "pending"

\* What the dictionary holds for the token when line 271 runs.
SeenOf(tx, token) ==
  IF token \notin DOMAIN tx THEN "absent"
  ELSE IF tx[token].status = "pending" THEN "pending" ELSE "final"

\* lines 263-286: the guard; past it the confirmation PUT is sent.
ConfirmPayment(c, token) ==
  /\ Arrives(c)
  /\ quiet' = [quiet EXCEPT ![c] = Quiet]
  /\ req' = [req EXCEPT ![c] = [NoReq EXCEPT !.kind = "confirm_payment", !.token = token]]
  /\ seen' = [seen EXCEPT ![c] = SeenOf(transactions, token)]
  /\ IF AlreadyProcessed(transactions, token)
       THEN /\ pc' = [pc EXCEPT ![c] = "g_success"]
            /\ UNCHANGED puts
       ELSE /\ puts' = [puts EXCEPT ![c] = @ + 1]
            /\ pc' = [pc EXCEPT ![c] = "c_resp"]
  /\ UNCHANGED << transactions, now, issued, resp, out, wrote, ret, notifs >>

\* line 273: "success" of the stored result.
GuardSuccess(c) ==
  /\ pc[c] = "g_success"
  /\ ret' = [ret EXCEPT ![c].success = (transactions[req[c].token].status = "AUTHORIZED")]
  /\ pc' = [pc EXCEPT ![c] = "g_status"]
  /\ UNCHANGED << transactions, now, issued, req, resp, out, seen, puts, wrote, notifs, quiet >>

\* line 274: "status" of the stored result.
GuardStatus(c) ==
  /\ pc[c] = "g_status"
  /\ ret' = [ret EXCEPT ![c].status = transactions[req[c].token].status]
  /\ pc' = [pc EXCEPT ![c] = "g_details"]
  /\ UNCHANGED << transactions, now, issued, req, resp, out, seen, puts, wrote, notifs, quiet >>

\* Variant of line 275 that reads a key the record never has.
StoredDetails_wrong_key(rec) == EmptyDict

\* line 275: .get("details", {})
StoredDetails(rec) == IF rec.details = None THEN EmptyDict ELSE rec.details[1]

\* lines 275-276: "details" of the stored result, and the return.
GuardDetails(c) ==
  /\ pc[c] = "g_details"
  /\ LET r == [ret[c] EXCEPT !.details = StoredDetails(transactions[req[c].token])] IN
       /\ ret' = [ret EXCEPT ![c] = r]
       /\ out' = [out EXCEPT ![c] = Some(Ok(r))]
  /\ pc' = [pc EXCEPT ![c] = "done"]
  /\ UNCHANGED << transactions, now, issued, req, resp, seen, puts, wrote, notifs, quiet >>

\* lines 288-290: what confirm_payment raises on a non-200 response.
ConfirmError(response) == HTTPException(500, << "Error al confirmar transaccion" >>)

\* Variant of lines 286-293 that marks the record failed before raising.
ConfirmResp_marks_failed(c) ==
  /\ pc[c] = "c_resp"
  /\ \E code \in Codes :
       IF code # 200
         THEN /\ resp' = [resp EXCEPT ![c] = Some(ErrorResponse(code))]
              /\ out' = [out EXCEPT ![c] = Some(ConfirmError(ErrorResponse(code)))]
              /\ pc' = [pc EXCEPT ![c] = "done"]
              /\ IF req[c].token \in DOMAIN transactions
                   THEN /\ transactions' = [transactions EXCEPT ![req[c].token].status = "FAILED"]
                        /\ wrote' = [wrote EXCEPT ![c] = @ \cup {"status"}]
                   ELSE UNCHANGED << transactions, wrote >>
         ELSE /\ \E s \in Statuses :
                   resp' = [resp EXCEPT ![c] = Some(Response(200, "", ConfirmJson(s, c)))]
              /\ pc' = [pc EXCEPT ![c] = "c_status"]
              /\ UNCHANGED << out, transactions, wrote >>
  /\ UNCHANGED << now, issued, req, seen, puts, ret, notifs, quiet >>

\* lines 286-293: the processor answers the confirmation PUT.
ConfirmResp(c) ==
  /\ pc[c] = "c_resp"
  /\ \E code \in Codes :
       IF code # 200
         THEN /\ resp' = [resp EXCEPT ![c] = Some(ErrorResponse(code))]
              /\ out' = [out EXCEPT ![c] = Some(ConfirmError(ErrorResponse(code)))]
              /\ pc' = [pc EXCEPT ![c] = "done"]
         ELSE /\ \E s \in Statuses :
                   resp' = [resp EXCEPT ![c] = Some(Response(200, "", ConfirmJson(s, c)))]
              /\ pc' = [pc EXCEPT ![c] = "c_status"]
              /\ UNCHANGED out
  /\ UNCHANGED << transactions, now, issued, req, seen, puts, wrote, ret, notifs, quiet >>

\* lines 322-326: the result built from the processor's response.
ConfirmResult(result) ==
  [success |-> (result.status = "AUTHORIZED"), status |-> result.status, details |-> result]

\* Variant of lines 295-296 that creates the record when the token has none.
ConfirmStatus_upserts(c) ==
  /\ pc[c] = "c_status"
  /\ LET token == req[c].token
         result == resp[c][1].json
     IN  /\ transactions' =
              IF token \in DOMAIN transactions
                THEN [transactions EXCEPT ![token].status = result.status]
                ELSE Put(transactions, token,
                         [PaymentRecord(0, << "ORDER", now >>, now) EXCEPT !.status = result.status])
         /\ wrote' = [wrote EXCEPT ![c] = @ \cup {"status"}]
         /\ pc' = [pc EXCEPT ![c] = "c_updated_at"]
  /\ UNCHANGED << now, issued, req, resp, out, seen, puts, ret, notifs, quiet >>

\* lines 295-296: the token has a record, and its status is assigned;
\* without a record the handler returns (lines 322-326).
ConfirmStatus(c) ==
  /\ pc[c] = "c_status"
  /\ LET token == req[c].token
         result == resp[c][1].json
     IN  IF token \in DOMAIN transactions
           THEN /\ transactions' = [transactions EXCEPT ![token].status = result.status]
                /\ wrote' = [wrote EXCEPT ![c] = @ \cup {"status"}]
                /\ pc' = [pc EXCEPT ![c] = "c_updated_at"]
                /\ UNCHANGED << out, ret >>
           ELSE /\ ret' = [ret EXCEPT ![c] = ConfirmResult(result)]
                /\ out' = [out EXCEPT ![c] = Some(Ok(ConfirmResult(result)))]
                /\ pc' = [pc EXCEPT ![c] = "done"]
                /\ UNCHANGED << transactions, wrote >>
  /\ UNCHANGED << now, issued, req, resp, seen, puts, notifs, quiet >>

\* line 297
ConfirmUpdatedAt(c) ==
  /\ pc[c] = "c_updated_at"
  /\ transactions' = [transactions EXCEPT ![req[c].token].updated_at = Some(now)]
  /\ wrote' = [wrote EXCEPT ![c] = @ \cup {"updated_at"}]
  /\ pc' = [pc EXCEPT ![c] = "c_details"]
  /\ UNCHANGED << now, issued, req, resp, out, seen, puts, ret, notifs, quiet >>

\* Variant of lines 296-298 that rebuilds the record from the response.
ConfirmDetails_rebuilds_record(c) ==
  /\ pc[c] = "c_details"
  /\ transactions' = [transactions EXCEPT ![req[c].token] =
                        [@ EXCEPT !.details = Some(resp[c][1].json), !.reserva_data = None]]
  /\ wrote' = [wrote EXCEPT ![c] = @ \cup {"details"}]
  /\ pc' = [pc EXCEPT ![c] = "c_reserva"]
  /\ UNCHANGED << now, issued, req, resp, out, seen, puts, ret, notifs, quiet >>

\* line 298
ConfirmDetails(c) ==
  /\ pc[c] = "c_details"
  /\ transactions' = [transactions EXCEPT ![req[c].token].details = Some(resp[c][1].json)]
  /\ wrote' = [wrote EXCEPT ![c] = @ \cup {"details"}]
  /\ pc' = [pc EXCEPT ![c] = "c_reserva"]
  /\ UNCHANGED << now, issued, req, resp, out, seen, puts, ret, notifs, quiet >>

\* Variant of lines 301-303 that notifies whatever the status.
ShouldNotify_any_status(status, reserva) == reserva # None

\* lines 301-303: the payment was authorized and the record is a reservation.
ShouldNotify(status, reserva) == status = "AUTHORIZED" /\ reserva # None

\* lines 301-303; when there is nothing to notify the handler returns
\* (lines 322-326).
ConfirmReserva(c) ==
  /\ pc[c] = "c_reserva"
  /\ LET result == resp[c][1].json IN
       IF ShouldNotify(result.status, transactions[req[c].token].reserva_data)
         THEN /\ pc' = [pc EXCEPT ![c] = "c_notify"]
              /\ UNCHANGED << out, ret >>
         ELSE /\ ret' = [ret EXCEPT ![c] = ConfirmResult(result)]
              /\ out' = [out EXCEPT ![c] = Some(Ok(ConfirmResult(result)))]
              /\ pc' = [pc EXCEPT ![c] = "done"]
  /\ UNCHANGED << transactions, now, issued, req, resp, seen, puts, wrote, notifs, quiet >>

\* Variant of lines 305-317 that posts no payment_details.
NotifyBody_without_details(token, rec, result) ==
  LET reserva == rec.reserva_data[1] IN
  [status |-> "paid", token |-> token, buy_order |-> rec.buy_order,
   nombre |-> reserva.name, email |-> reserva.email,
   startTime |-> reserva.start_time, endTime |-> reserva.end_time,
   service |-> reserva.service_name, amount |-> rec.amount,
   from_number |-> reserva.phone, payment_details |-> EmptyDict]

\* lines 305-317: the body posted to the webhook.
NotifyBody(token, rec, result) ==
  LET reserva == rec.reserva_data[1] IN
  [status |-> "paid", token |-> token, buy_order |-> rec.buy_order,
   nombre |-> reserva.name, email |-> reserva.email,
   startTime |-> reserva.start_time, endTime |-> reserva.end_time,
   service |-> reserva.service_name, amount |-> rec.amount,
   from_number |-> reserva.phone, payment_details |-> result]

\* Variant of lines 304-326 without the try/except.
AfterNotify_uncaught(delivered, result) ==
  IF delivered THEN Ok(ConfirmResult(result))
  ELSE HTTPException(500, << "Internal Server Error" >>)

\* lines 318-326: what the handler answers after the POST was delivered
\* (line 318) or raised (lines 319-320, the exception is printed).
AfterNotify(delivered, result) == Ok(ConfirmResult(result))

\* lines 304-326: the webhook POST (timeout 10 s) is delivered or raises;
\* either way the handler goes on to return the processor's outcome.
ConfirmNotify(c) ==
  /\ pc[c] = "c_notify"
  /\ LET token == req[c].token
         result == resp[c][1].json
     IN  /\ \E delivered \in BOOLEAN :
              /\ notifs' = [notifs EXCEPT ![c] =
                              Append(@, [body |-> NotifyBody(token, transactions[token], result),
                                         delivered |-> delivered])]
              /\ out' = [out EXCEPT ![c] = Some(AfterNotify(delivered, result))]
         /\ ret' = [ret EXCEPT ![c] = ConfirmResult(result)]
  /\ pc' = [pc EXCEPT ![c] = "done"]
  /\ UNCHANGED << transactions, now, issued, req, resp, seen, puts, wrote, quiet >>

\* ---------------------------------------------------------- the system
Next ==
  \/ Tick
  \/ \E c \in Calls, a \in Amounts : CreatePayment(c, a)
  \/ \E c \in Calls : CreatePaymentResp(c)
  \/ \E c \in Calls : CreatePaymentStore(c)
  \/ \E c \in Calls, d \in Reservas, a \in Amounts : CrearPagoReserva(c, d, a)
  \/ \E c \in Calls : CrearPagoReservaResp(c)
  \/ \E c \in Calls : CrearPagoReservaStore(c)
  \/ \E c \in Calls, t \in Tokens : ConfirmPayment(c, t)
  \/ \E c \in Calls : GuardSuccess(c)
  \/ \E c \in Calls : GuardStatus(c)
  \/ \E c \in Calls : GuardDetails(c)
  \/ \E c \in Calls : ConfirmResp(c)
  \/ \E c \in Calls : ConfirmStatus(c)
  \/ \E c \in Calls : ConfirmUpdatedAt(c)
  \/ \E c \in Calls : ConfirmDetails(c)
  \/ \E c \in Calls : ConfirmReserva(c)
  \/ \E c \in Calls : ConfirmNotify(c)

Spec == Init /\ [][Next]_vars

\* ------------------------------------------------------------ vocabulary
IsConfirm(c) == req[c].kind = "confirm_payment"
IsCreate(c) == req[c].kind \in {"create_payment", "crear_pago_reserva"}
Answered(c) == pc[c] = "done"
\* The handler raised an HTTPException.
Raised(c) == Answered(c) /\ DOMAIN out[c][1].body = {"detail"}
\* The processor answered c with a non-200 response.
Refused(c) == resp[c] # None /\ resp[c][1].status_code # 200
\* The processor answered c with a 200 response.
Accepted(c) == resp[c] # None /\ resp[c][1].status_code = 200
\* The webhook POSTs made for token t.
Dispatches(t) ==
  UNION { { << c, i >> : i \in 1 .. Len(notifs[c]) } : c \in { d \in Calls : req[d].token = t } }
\* Request c ran with no other request in flight, from arrival to answer.
RanAlone(c) ==
  /\ quiet[c]
  /\ Answered(c)
  /\ (c + 1 \in Calls /\ pc[c + 1] # "idle") => quiet[c + 1]

\* ----------------------------------------------------------------- claims

\* C1: a confirmation whose token has, at line 271, a record with a status
\* other than "pending" sends nothing to the processor, posts no
\* notification, assigns nothing in the dictionary, and answers (without
\* raising) a status that is not "pending".
C1_GuardShortCircuits ==
  \A c \in Calls :
    (IsConfirm(c) /\ seen[c] = "final") =>
      /\ puts[c] = 0
      /\ notifs[c] = << >>
      /\ wrote[c] = {}
      /\ pc[c] \in {"g_success", "g_status", "g_details", "done"}
      /\ Answered(c) => (~Raised(c) /\ out[c][1].body.status \in Statuses)

C1_Witness ==
  \E c \in Calls : IsConfirm(c) /\ seen[c] = "final" /\ Answered(c)

\* Every response the processor has given to a confirmation is 200 AUTHORIZED.
AlwaysAuthorized ==
  \A c \in Calls :
    (IsConfirm(c) /\ puts[c] > 0 /\ pc[c] # "c_resp") =>
      (Accepted(c) /\ resp[c][1].json.status = "AUTHORIZED")

\* C2: when the processor always answers AUTHORIZED, two confirmations of
\* the same reservation token that both found it pending end with exactly
\* one notification posted for the token and both answering success = true.
C2_ExactlyOneNotification ==
  \A c1, c2 \in Calls :
    ( /\ c1 # c2 /\ IsConfirm(c1) /\ IsConfirm(c2)
      /\ req[c1].token = req[c2].token
      /\ seen[c1] = "pending" /\ seen[c2] = "pending"
      /\ Answered(c1) /\ Answered(c2)
      /\ transactions[req[c1].token].reserva_data # None
      /\ transactions[req[c1].token].amount > 0
      /\ AlwaysAuthorized ) =>
      /\ Cardinality(Dispatches(req[c1].token)) = 1
      /\ ~Raised(c1) /\ out[c1][1].body.success
      /\ ~Raised(c2) /\ out[c2][1].body.success

\* A confirmation that found its token pending and sent the PUT, and has
\* not assigned the status yet.
InCheckThenAct(c) ==
  IsConfirm(c) /\ seen[c] = "pending" /\ puts[c] > 0 /\ pc[c] \in {"c_resp", "c_status"}

\* C3: no two confirmations of the same token are at once between the
\* check of line 271 (found pending, PUT sent) and the update of line 296.
C3_CheckThenActAtomic ==
  \A c1, c2 \in Calls :
    (c1 # c2 /\ req[c1].token = req[c2].token) =>
      ~(InCheckThenAct(c1) /\ InCheckThenAct(c2))

\* c1 and c2 confirm the same token one after the other: c1 ran alone,
\* got a 200 from the processor and assigned the record's status; c2
\* arrived later and is answered.
ConfirmedTwice(c1, c2) ==
  /\ c1 < c2 /\ IsConfirm(c1) /\ IsConfirm(c2)
  /\ req[c1].token = req[c2].token
  /\ RanAlone(c1) /\ Accepted(c1) /\ "status" \in wrote[c1]
  /\ Answered(c2)

\* C4: the second of two confirmations in sequence answers exactly what
\* the first answered, and the two post at most one notification together.
C4_RepeatedConfirmIdentical ==
  \A c1, c2 \in Calls :
    ConfirmedTwice(c1, c2) =>
      /\ ~Raised(c1) /\ ~Raised(c2)
      /\ out[c2][1].body = out[c1][1].body
      /\ Len(notifs[c1]) + Len(notifs[c2]) <= 1

C4_Witness ==
  \E c1, c2 \in Calls : ConfirmedTwice(c1, c2) /\ Len(notifs[c1]) = 1

\* No other confirmation of the token of c has assigned anything.
OnlyWriter(c) ==
  \A d \in Calls \ {c} : (IsConfirm(d) /\ req[d].token = req[c].token) => wrote[d] = {}

\* C5: a confirmation the processor refuses raises, has assigned nothing
\* and posted nothing; unless another confirmation wrote it, the record of
\* its token is still pending, without updated_at and without details.
C5_RefusedConfirmLeavesRecord ==
  \A c \in Calls :
    (IsConfirm(c) /\ Refused(c)) =>
      /\ Raised(c)
      /\ wrote[c] = {}
      /\ notifs[c] = << >>
      /\ (req[c].token \in DOMAIN transactions /\ OnlyWriter(c)) =>
           LET rec == transactions[req[c].token] IN
             rec.status = "pending" /\ rec.updated_at = None /\ rec.details = None

C5_Witness ==
  \E c \in Calls : IsConfirm(c) /\ Refused(c) /\ seen[c] = "pending" /\ Answered(c)

\* C6: a creation (plain or reservation) the processor refuses raises and
\* stores nothing, and every stored record belongs to a creation the
\* processor accepted.
C6_RefusedCreateStoresNothing ==
  /\ \A c \in Calls :
       (IsCreate(c) /\ Refused(c)) => (Raised(c) /\ wrote[c] = {})
  /\ \A t \in DOMAIN transactions :
       \E c \in Calls : IsCreate(c) /\ Accepted(c) /\ resp[c][1].json.token = t

C6_Witness ==
  \E c1, c2 \in Calls :
    /\ req[c1].kind = "create_payment" /\ Refused(c1) /\ Answered(c1)
    /\ req[c2].kind = "crear_pago_reserva" /\ Refused(c2) /\ Answered(c2)

\* C7: create_payment with an amount <= 0 raises 400 without sending
\* anything to the processor and without storing a record.
C7_NonPositiveAmountRejected ==
  \A c \in Calls :
    (req[c].kind = "create_payment" /\ req[c].amount <= 0) =>
      /\ Answered(c)
      /\ Raised(c) /\ out[c][1].http = 400
      /\ puts[c] = 0
      /\ resp[c] = None
      /\ wrote[c] = {}

C7_Witness ==
  \E c1, c2 \in Calls :
    /\ req[c1].kind = "create_payment" /\ req[c1].amount = 0 /\ Answered(c1)
    /\ req[c2].kind = "create_payment" /\ req[c2].amount < 0 /\ Answered(c2)

\* C8: crear_pago_reserva with an amount <= 0 raises a client error
\* without sending anything to the processor and without storing a record.
C8_ReservaAmountRejected ==
  \A c \in Calls :
    (req[c].kind = "crear_pago_reserva" /\ req[c].amount <= 0) =>
      /\ puts[c] = 0
      /\ wrote[c] = {}
      /\ Answered(c) /\ Raised(c) /\ out[c][1].http = 400

\* C9: an answered confirmation the processor accepted has posted exactly
\* one notification when it found a record for its token at line 295, that
\* record carries reserva_data and the status is AUTHORIZED, and none
\* otherwise; no confirmation ever posts more than one.
C9_NotifiesExactlyWhenAuthorizedReservation ==
  \A c \in Calls :
    /\ Len(notifs[c]) <= 1
    /\ (IsConfirm(c) /\ Accepted(c) /\ Answered(c)) =>
         LET linked == "status" \in wrote[c] /\ transactions[req[c].token].reserva_data # None
             authorized == resp[c][1].json.status = "AUTHORIZED"
         IN  Len(notifs[c]) = IF linked /\ authorized THEN 1 ELSE 0

C9_Witness ==
  \E c1, c2 \in Calls :
    /\ IsConfirm(c1) /\ Accepted(c1) /\ Answered(c1) /\ Len(notifs[c1]) = 1
    /\ IsConfirm(c2) /\ Accepted(c2) /\ Answered(c2) /\ Len(notifs[c2]) = 0
    /\ "status" \in wrote[c2] /\ transactions[req[c2].token].reserva_data # None

\* The webhook POST of c raised.
NotifyFailed(c) == notifs[c] # << >> /\ ~notifs[c][Len(notifs[c])].delivered

\* C10: a confirmation whose webhook POST raised still answers the
\* processor's outcome (success = (status = AUTHORIZED), the processor's
\* status and response), and the POST step leaves the dictionary as it was.
C10_NotifyFailureSwallowed ==
  /\ [](\A c \in Calls :
          (IsConfirm(c) /\ NotifyFailed(c)) =>
            LET result == resp[c][1].json IN
              /\ Answered(c)
              /\ out[c] = Some([http |-> 200,
                                body |-> [success |-> (result.status = "AUTHORIZED"),
                                          status |-> result.status,
                                          details |-> result]]))
  /\ [][\A c \in Calls :
          (pc[c] = "c_notify" /\ pc'[c] # "c_notify") => transactions' = transactions]_vars

C10_Witness ==
  \E c \in Calls : IsConfirm(c) /\ NotifyFailed(c) /\ Answered(c)

\* The processor never issued token t: no creation was answered with it.
NeverIssued(t) == t > issued

\* C11: a confirmation of a token the processor never issued finds no record
\* at line 271 and sends the PUT all the same; it assigns nothing, posts no
\* notification, no record appears for the token and none of its steps
\* changes the dictionary; it raises when the processor refuses and answers
\* the processor's outcome when it accepts.
C11_UnknownTokenTouchesNothing ==
  /\ [](\A c \in Calls :
          (IsConfirm(c) /\ NeverIssued(req[c].token)) =>
            /\ seen[c] = "absent"
            /\ puts[c] = 1
            /\ wrote[c] = {}
            /\ notifs[c] = << >>
            /\ req[c].token \notin DOMAIN transactions
            /\ Refused(c) => Raised(c)
            /\ (Accepted(c) /\ Answered(c)) =>
                 LET result == resp[c][1].json IN
                   out[c] = Some([http |-> 200,
                                  body |-> [success |-> (result.status = "AUTHORIZED"),
                                            status |-> result.status,
                                            details |-> result]]))
  /\ [][\A c \in Calls :
          (IsConfirm(c) /\ NeverIssued(req[c].token) /\ pc'[c] # pc[c]) =>
            transactions' = transactions]_vars

C11_Witness ==
  \E c1, c2 \in Calls :
    /\ IsConfirm(c1) /\ NeverIssued(req[c1].token) /\ Accepted(c1) /\ Answered(c1)
    /\ resp[c1][1].json.status = "AUTHORIZED"
    /\ IsConfirm(c2) /\ NeverIssued(req[c2].token) /\ Refused(c2) /\ Answered(c2)
    /\ DOMAIN transactions # {}

\* ------------------------------------------- the system after a creation
\* The dictionary and the processor as one answered crear_pago_reserva
\* leaves them (token 1 stored, pending), with no request in flight and
\* all MaxCalls requests still to arrive.
InitAfterCreate ==
  /\ transactions =
       Put([t \in {} |-> 0], 1,
           ReservaRecord(CHOOSE d \in Reservas : d.name = "ana", 1, << "RES", 0 >>, 0))
  /\ now = 0
  /\ issued = 1
  /\ pc = [c \in Calls |-> "idle"]
  /\ req = [c \in Calls |-> NoReq]
  /\ resp = [c \in Calls |-> None]
  /\ out = [c \in Calls |-> None]
  /\ seen = [c \in Calls |-> "none"]
  /\ puts = [c \in Calls |-> 0]
  /\ wrote = [c \in Calls |-> {}]
  /\ ret = [c \in Calls |-> NoRet]
  /\ notifs = [c \in Calls |-> << >>]
  /\ quiet = [c \in Calls |-> FALSE]

\* The system started empty or after that creation.
SpecAfterCreate == (Init \/ InitAfterCreate) /\ [][Next]_vars

\* C12: every dictionary confirm_payment returns, from lines 272-276 or from
\* lines 322-326, has success = true exactly when its status is AUTHORIZED.
C12_SuccessIffAuthorized ==
  \A c \in Calls :
    (IsConfirm(c) /\ Answered(c) /\ ~Raised(c)) =>
      (out[c][1].body.success <=> (out[c][1].body.status = "AUTHORIZED"))

\* Request c is a crear_pago_reserva that stored its record.
StoredReserva(c) == req[c].kind = "crear_pago_reserva" /\ wrote[c] = {"record"}

\* C13: the record of a stored crear_pago_reserva carries the request's
\* reservation data whatever confirmations ran since, and no step changes
\* the reserva_data of a stored record.
C13_ReservaDataRetained ==
  /\ [](\A c \in Calls :
          StoredReserva(c) =>
            LET t == resp[c][1].json.token IN
              /\ t \in DOMAIN transactions
              /\ transactions[t].reserva_data = req[c].data
              /\ req[c].data # None)
  /\ [][\A t \in DOMAIN transactions :
          transactions'[t].reserva_data = transactions[t].reserva_data]_vars

C13_Witness ==
  \E c, d \in Calls :
    /\ StoredReserva(c)
    /\ transactions[resp[c][1].json.token].details # None
    /\ IsConfirm(d) /\ req[d].token = resp[c][1].json.token
    /\ seen[d] = "final" /\ Answered(d)

\* The step in which creation c stores its record and returns.
Stores(c) == pc[c] \in {"p_store", "r_store"} /\ pc'[c] = "done"

\* C14: a creation the processor accepted stores one new record under the
\* token of the response, pending, with the request's amount, buy_order and
\* reservation data, and answers success with that token; records appear
\* only so, and the amount of a stored record never changes.
C14_AcceptedCreateStoresRecord ==
  /\ [](\A c \in Calls :
          (IsCreate(c) /\ Accepted(c) /\ Answered(c)) =>
            LET t == resp[c][1].json.token IN
              /\ wrote[c] = {"record"}
              /\ t \in DOMAIN transactions
              /\ transactions[t].amount = req[c].amount
              /\ transactions[t].buy_order = req[c].buy_order[1]
              /\ transactions[t].reserva_data = req[c].data
              /\ ~Raised(c)
              /\ out[c][1].body.success
              /\ out[c][1].body.token = t)
  /\ [][\A c \in Calls :
          Stores(c) =>
            LET t == resp[c][1].json.token IN
              /\ t \notin DOMAIN transactions
              /\ DOMAIN transactions' = DOMAIN transactions \cup {t}
              /\ transactions'[t].status = "pending"
              /\ \A k \in DOMAIN transactions : transactions'[k] = transactions[k]]_vars
  /\ [][(DOMAIN transactions' # DOMAIN transactions) => \E c \in Calls : Stores(c)]_vars
  /\ [][\A t \in DOMAIN transactions :
          t \in DOMAIN transactions' /\ transactions'[t].amount = transactions[t].amount]_vars

C14_Witness ==
  \E c \in Calls :
    /\ StoredReserva(c) /\ req[c].amount = 1
    /\ transactions[resp[c][1].json.token].status = "AUTHORIZED"
    /\ transactions[resp[c][1].json.token].updated_at # None

\* ------------------------------------------------ the system, scheduled
\* A step of the handler of request c that waits for nothing but the thread
\* pool, or for the webhook POST, which ends within its 10 s timeout
\* (line 317).
HandlerStep(c) ==
  \/ CreatePaymentStore(c)
  \/ CrearPagoReservaStore(c)
  \/ GuardSuccess(c)
  \/ GuardStatus(c)
  \/ GuardDetails(c)
  \/ ConfirmStatus(c)
  \/ ConfirmUpdatedAt(c)
  \/ ConfirmDetails(c)
  \/ ConfirmReserva(c)
  \/ ConfirmNotify(c)

\* Every handler keeps running; the processor's answers (lines 133, 234
\* and 286 pass no timeout) are under no obligation to come.
FairSpec == Spec /\ \A c \in Calls : WF_vars(HandlerStep(c))

\* C15: every request that arrived is eventually answered, whether or not
\* the processor answers.
C15_EveryRequestAnswered ==
  \A c \in Calls : (pc[c] # "idle") ~> (pc[c] = "done")

\* The detail of an HTTPException holds the text.
Carries(detail, text) == \E i \in 1 .. Len(detail) : detail[i] = text

\* C16: every request the processor refused, a creation or a
\* confirmation, raises an HTTPException whose detail holds response.text.
C16_EveryRefusalCarriesBody ==
  \A c \in Calls :
    (Refused(c) /\ Answered(c)) =>
      (Raised(c) /\ Carries(out[c][1].body.detail, resp[c][1].text))

\* Request d stored the record of token t.
Created(d, t) ==
  /\ IsCreate(d)
  /\ wrote[d] = {"record"}
  /\ resp[d][1].json.token = t

\* C17: every body posted to the webhook by a confirmation of token t holds
\* status "paid", t, the buy_order, the amount and the name, email, start
\* time, end time, service and phone of the request that created t's record,
\* and the JSON the processor answered to this confirmation.
C17_NotificationCarriesReservation ==
  \A c \in Calls : \A i \in 1 .. Len(notifs[c]) :
    \E d \in Calls :
      /\ Created(d, req[c].token)
      /\ req[d].kind = "crear_pago_reserva"
      /\ notifs[c][i].body =
           [status |-> "paid", token |-> req[c].token,
            buy_order |-> req[d].buy_order[1], amount |-> req[d].amount,
            nombre |-> req[d].data[1].name, email |-> req[d].data[1].email,
            startTime |-> req[d].data[1].start_time,
            endTime |-> req[d].data[1].end_time,
            service |-> req[d].data[1].service_name,
            from_number |-> req[d].data[1].phone,
            payment_details |-> resp[c][1].json]

C17_Witness ==
  \E c \in Calls :
    /\ IsConfirm(c) /\ Answered(c)
    /\ Len(notifs[c]) = 1
    /\ notifs[c][1].body.from_number # None

\* Request c assigns transactions[token]["status"] in this step (line 296).
AssignsStatus(c) == pc[c] = "c_status" /\ pc'[c] # pc[c]

\* C18: a record is stored with status "pending"; its status changes only
\* in the step of a confirmation that assigns it; and a status other than
\* "pending" is never replaced by a different one, whatever the
\* interleaving of the confirmations of the token.
C18_StatusChangesAtMostOnce ==
  /\ [][\A t \in Tokens :
          (t \notin DOMAIN transactions /\ t \in DOMAIN transactions')
            => transactions'[t].status = "pending"]_vars
  /\ [][\A t \in DOMAIN transactions :
          (t \in DOMAIN transactions' /\ transactions'[t].status # transactions[t].status)
            => \E c \in Calls : IsConfirm(c) /\ req[c].token = t /\ AssignsStatus(c)]_vars
  /\ [][\A t \in DOMAIN transactions :
          (t \in DOMAIN transactions' /\ transactions[t].status # "pending")
            => transactions'[t].status = transactions[t].status]_vars

\* C19: a confirmation that found, at line 271, a record with a status other
\* than "pending" never answers empty details: the record it reads holds the
\* details of the confirmation that set that status.
C19_GuardNeverReturnsEmptyDetails ==
  \A c \in Calls :
    (IsConfirm(c) /\ seen[c] = "final" /\ Answered(c))
      => out[c][1].body.details # EmptyDict

\* Confirmation c found the record of its token pending, was refused by the
\* processor and was answered with no other request in flight.
FailedAlone(c) ==
  /\ IsConfirm(c) /\ seen[c] = "pending"
  /\ Refused(c)
  /\ RanAlone(c)

\* C20: after a confirmation of a stored, pending token was refused by the
\* processor, the next confirmation of that token finds the record pending
\* and sends the PUT again; if that PUT is answered AUTHORIZED and the
\* request runs alone, the record ends AUTHORIZED with the processor's
\* details, the answer is success = true, and one notification is posted
\* when the record holds a reservation (none otherwise).
C20_FailedConfirmDoesNotLock ==
  \A c1 \in Calls :
    LET c2 == c1 + 1 IN
    (FailedAlone(c1) /\ c2 \in Calls /\ IsConfirm(c2) /\ req[c2].token = req[c1].token) =>
      /\ seen[c2] = "pending"
      /\ puts[c2] = 1
      /\ (RanAlone(c2) /\ Accepted(c2) /\ resp[c2][1].json.status = "AUTHORIZED") =>
           LET rec == transactions[req[c2].token] IN
             /\ rec.status = "AUTHORIZED"
             /\ rec.details = Some(resp[c2][1].json)
             /\ out[c2][1].body.success = TRUE
             /\ Len(notifs[c2]) = (IF rec.reserva_data # None THEN 1 ELSE 0)

C20_Witness ==
  \E c1 \in Calls :
    /\ FailedAlone(c1)
    /\ c1 + 1 \in Calls /\ IsConfirm(c1 + 1) /\ req[c1 + 1].token = req[c1].token
    /\ RanAlone(c1 + 1) /\ Accepted(c1 + 1)
    /\ resp[c1 + 1][1].json.status = "AUTHORIZED"
    /\ Len(notifs[c1 + 1]) = 1
====
